---- MODULE Spec2Model ----
(***************************************************************************)
(* A model of watchtower's CloudWatchLogHandler                            *)
(* (src/watchtower/__init__.py): admission (emit), the per-stream worker   *)
(* (_dequeue_batch), the delivery client (_submit_batch) and the lifecycle *)
(* calls flush() and close().                                              *)
(*                                                                         *)
(* Processes: the application threads (Threads) that call emit, flush and  *)
(* close, and one worker per stream, named by its stream.  A step of a     *)
(* process runs from one blocking point or shared-variable read to the     *)
(* next: a queue get, a remote call, a Queue.join(), the read of           *)
(* shutting_down.                                                          *)
(***************************************************************************)
EXTENDS Integers, Sequences, FiniteSets, TLC

(* ------------------------------------------------------------------ *)
(* Program constants                                                  *)
(* ------------------------------------------------------------------ *)
END == 1
FLUSH == 2
EXTRA_MSG_PAYLOAD_SIZE == 26
max_retries == 5

(* ------------------------------------------------------------------ *)
(* Bounds of the model                                                *)
(* ------------------------------------------------------------------ *)
MaxEmits == 3
MaxCalls == 2
MaxTime == 1

Streams == {"a", "b"}
Threads == {"t1", "t2"}
Procs == Streams \cup Threads
Tokens == {"tk1", "tk2"}
Lens == {0, 5, 12, 20, 40}
Timestamps == {1, 2}

\* The handler configurations explored (constructor arguments, lines 185-213).
Config(uq, cs, mbs, mbc) ==
    [use_queues |-> uq, create_log_stream |-> cs, send_interval |-> 1,
     max_batch_size |-> mbs, max_batch_count |-> mbc, max_message_size |-> 60]

\* The scenarios explored.  Each one stresses one side of the handler and
\* draws the rest from a small set: the remote service failing in every way,
\* the batching limits, the timestamps, several streams, several threads, and
\* the timing of one burst of records: all logged at time 0 (burst) while the
\* threads run much faster than send_interval (prompt), and messages whose
\* characters take width bytes each in UTF-8.
Scenarios ==
    { [name |-> "faults", threads |-> {"t1"}, streams |-> {"a"},
       emits |-> MaxEmits - 1, lens |-> {5}, stamps |-> {1}, faults |-> TRUE,
       burst |-> FALSE, prompt |-> FALSE, width |-> 1,
       remote |-> {{"a"}},
       configs |-> {Config(TRUE, TRUE, 100, 2), Config(TRUE, FALSE, 100, 2),
                    Config(FALSE, TRUE, 100, 2)}],
      [name |-> "batching", threads |-> {"t1"}, streams |-> {"a"},
       emits |-> MaxEmits, lens |-> Lens, stamps |-> {1}, faults |-> FALSE,
       burst |-> FALSE, prompt |-> FALSE, width |-> 1,
       remote |-> {{"a"}},
       configs |-> {Config(TRUE, TRUE, 100, 2), Config(TRUE, TRUE, 100, 3),
                    Config(TRUE, TRUE, 50, 3), Config(TRUE, TRUE, 120, 3)}],
      [name |-> "ordering", threads |-> {"t1"}, streams |-> {"a"},
       emits |-> MaxEmits, lens |-> {0, 5, 40}, stamps |-> Timestamps, faults |-> FALSE,
       burst |-> FALSE, prompt |-> FALSE, width |-> 1,
       remote |-> {{"a"}},
       configs |-> {Config(TRUE, TRUE, 100, 3), Config(FALSE, TRUE, 100, 3)}],
      [name |-> "streams", threads |-> {"t1"}, streams |-> Streams,
       emits |-> MaxEmits, lens |-> {5}, stamps |-> {1}, faults |-> FALSE,
       burst |-> FALSE, prompt |-> FALSE, width |-> 1,
       remote |-> {{"a"}},
       configs |-> {Config(TRUE, TRUE, 100, 2)}],
      [name |-> "threads", threads |-> Threads, streams |-> Streams,
       emits |-> MaxEmits - 1, lens |-> {5}, stamps |-> {1}, faults |-> FALSE,
       burst |-> FALSE, prompt |-> FALSE, width |-> 1,
       remote |-> {{"a"}},
       configs |-> {Config(TRUE, TRUE, 100, 2)}],
      [name |-> "unicode", threads |-> {"t1"}, streams |-> {"a"},
       emits |-> MaxEmits, lens |-> {12, 40}, stamps |-> {1}, faults |-> FALSE,
       burst |-> FALSE, prompt |-> FALSE, width |-> 3,
       remote |-> {{"a"}},
       configs |-> {Config(TRUE, TRUE, 120, 3)}],
      [name |-> "timing", threads |-> {"t1"}, streams |-> {"a"},
       emits |-> MaxEmits, lens |-> {5}, stamps |-> {1}, faults |-> FALSE,
       burst |-> TRUE, prompt |-> TRUE, width |-> 1,
       remote |-> {{"a"}},
       configs |-> {Config(TRUE, TRUE, 100, 3)}] }

VARIABLES
    scn,                  \* the scenario: which threads run, what the remote may do
    cfg,                  \* the constructor arguments
    now,                  \* time.time(), in units of send_interval
    queues,               \* keys of self.queues, in insertion order
    qitems,               \* the items of each stream's Queue
    unfinished_tasks,     \* Queue.unfinished_tasks of each stream's Queue
    sequence_tokens,      \* self.sequence_tokens
    shutting_down,        \* self.shutting_down
    creating_log_stream,  \* self.creating_log_stream
    remote_streams,       \* the streams that exist at the remote service
    lock,                 \* the holder of the handler's lock (self.lock), "" when free
    pc,                   \* where each process is
    wk,                   \* locals of each worker (_dequeue_batch)
    th,                   \* locals of each application thread
    sub,                  \* locals of _submit_batch of each process
    emitted,              \* history: the records admitted, by id
    created,              \* history: queues and workers created for each stream
    outcome,              \* history: how each process's last _submit_batch ended
    latest,               \* history: the token the service last named for each stream
    enq,                  \* history: ids put on each queue, in put order
    handed,               \* history: batches handed to _submit_batch, per stream
    sent,                 \* history: ids of records in some put_log_events call
    late,                 \* history: ids admitted while shutting_down was set
    dropped,              \* history: ids dropped with the shutdown warning
    warned,               \* history: ids whose truncation warning was emitted
    ncalls,               \* history: number of flush()/close() calls made
    ret                   \* history: how each thread's last call ended

vars == <<scn, cfg, now, queues, qitems, unfinished_tasks, sequence_tokens, shutting_down,
          creating_log_stream, remote_streams, lock, pc, wk, th, sub, emitted, created,
          outcome, latest, enq, handed, sent, late, dropped, warned, ncalls, ret>>

(* ------------------------------------------------------------------ *)
(* Values                                                             *)
(* ------------------------------------------------------------------ *)
Min(x, y) == IF x <= y THEN x ELSE y

\* Python's None where a queue item is expected (msg = None, line 390)
None == [sig |-> 0 - 1, id |-> 0, timestamp |-> 0, len |-> 0]
\* the control signals END and FLUSH as queue items
Signal(k) == [sig |-> k, id |-> 0, timestamp |-> 0, len |-> 0]
\* cwl_message: a dict with a timestamp and a message of n characters
Message(i, ts, n) == [sig |-> 0, id |-> i, timestamp |-> ts, len |-> n]

IsRecord(m) == m.sig = 0

Ids(batch) == { batch[i].id : i \in 1..Len(batch) }

NoToken == "None"
NoSub == [batch |-> <<>>, events |-> <<>>, stream |-> "", retry |-> 0, token |-> NoToken,
          after |-> "", expect |-> "keep"]
\* response = None (line 307)
NoResponse == [kind |-> "none", next |-> NoToken, rejected |-> FALSE, message |-> <<>>]
NoOutcome == [resp |-> "none", warned |-> FALSE, token |-> ""]
NoLocals == [msg |-> None, cur_batch |-> <<>>, cur_batch_size |-> 0,
             cur_batch_msg_count |-> 0, cur_batch_deadline |-> 0]
NoThread == [idx |-> 0, used |-> 0, snap |-> {}, rec |-> None]

(* ------------------------------------------------------------------ *)
(* _dequeue_batch: size, truncate                                     *)
(* ------------------------------------------------------------------ *)
max_message_body_size == cfg.max_message_size - EXTRA_MSG_PAYLOAD_SIZE

size(m) == (IF IsRecord(m) THEN m.len ELSE 1) + EXTRA_MSG_PAYLOAD_SIZE

\* _msg2["message"][:max_message_body_size]
truncate(m) == [m EXCEPT !.len = Min(m.len, max_message_body_size)]

\* the size of a record in bytes: its message in UTF-8 and the overhead
ByteSize(m) == m.len * scn.width + EXTRA_MSG_PAYLOAD_SIZE

RECURSIVE SumBytes(_)
SumBytes(batch) == IF batch = <<>> THEN 0 ELSE ByteSize(Head(batch)) + SumBytes(Tail(batch))

RECURSIVE SumSize(_)
SumSize(batch) == IF batch = <<>> THEN 0 ELSE size(Head(batch)) + SumSize(Tail(batch))

(* ------------------------------------------------------------------ *)
(* _submit_batch: sorted(batch, key=itemgetter('timestamp'))          *)
(* ------------------------------------------------------------------ *)
RECURSIVE InsertByTimestamp(_, _)
InsertByTimestamp(e, s) ==
    IF s = <<>> THEN <<e>>
    ELSE IF s[Len(s)].timestamp <= e.timestamp THEN Append(s, e)
    ELSE Append(InsertByTimestamp(e, SubSeq(s, 1, Len(s) - 1)), s[Len(s)])

unsorted(batch) == batch

RECURSIVE sorted(_)
sorted(batch) ==
    IF batch = <<>> THEN <<>>
    ELSE InsertByTimestamp(batch[Len(batch)], sorted(SubSeq(batch, 1, Len(batch) - 1)))

(* ------------------------------------------------------------------ *)
(* The handler's lock (createLock, lines 351-353): logging.Handler    *)
(* .handle holds it around every call of emit                         *)
(* ------------------------------------------------------------------ *)
acquireNoWait(t) == TRUE

\* self.acquire() returns for thread t
acquire(t) == lock = ""

\* self.release() by thread t
release(t) == ""

(* ------------------------------------------------------------------ *)
(* _submit_batch (lines 299-349), run by process p for stream         *)
(* sub[p].stream.  One step per remote call.                          *)
(* ------------------------------------------------------------------ *)

EmptyBatchNever(batch) == FALSE

\* lines 300-301: _submit_batch returns at once for a batch without records
EmptyBatch(batch) == Len(batch) < 1

\* lines 299-307: the call, for a batch of at least one record
BeginSubmit(p, batch, stream) ==
    /\ sub' = [sub EXCEPT ![p] = [batch |-> batch, events |-> sorted(batch),
                                  stream |-> stream, retry |-> 0,
                                  token |-> sequence_tokens[stream], after |-> "",
                                  expect |-> "keep"]]
    /\ handed' = [handed EXCEPT ![stream] = Append(@, batch)]
    /\ pc' = [pc EXCEPT ![p] = "put"]

NewBatchDropsSeed(m) ==
    [msg |-> m, cur_batch |-> <<>>, cur_batch_size |-> 0, cur_batch_msg_count |-> 0,
     cur_batch_deadline |-> now + cfg.send_interval]

\* lines 402-406: the head of the worker's outer loop, entered with msg = m
NewBatch(m) ==
    LET cur_batch == IF m = None \/ m.sig = FLUSH THEN <<>> ELSE <<m>>
    IN  [msg |-> m, cur_batch |-> cur_batch, cur_batch_size |-> SumSize(cur_batch),
         cur_batch_msg_count |-> Len(cur_batch),
         cur_batch_deadline |-> now + cfg.send_interval]

\* lines 422-425 and 402: after _submit_batch returned to worker s, whose
\* pulled item was m
WorkerResume(s, m) ==
    /\ unfinished_tasks' = IF m # None THEN [unfinished_tasks EXCEPT ![s] = @ - 1]
                           ELSE unfinished_tasks
    /\ IF m.sig = END
       THEN /\ pc' = [pc EXCEPT ![s] = "done"]
            /\ wk' = [wk EXCEPT ![s] = [NoLocals EXCEPT !.msg = m]]
       ELSE /\ pc' = [pc EXCEPT ![s] = "get"]
            /\ wk' = [wk EXCEPT ![s] = NewBatch(m)]

\* _submit_batch returns normally to its caller: the worker loop (line 421) or
\* emit (line 385)
ProcReturn(p) ==
    IF p \in Streams
    THEN WorkerResume(p, wk[p].msg) /\ UNCHANGED <<th, ret, lock>>
    ELSE /\ pc' = [pc EXCEPT ![p] = "idle"]
         /\ ret' = [ret EXCEPT ![p] = "emit_submitted"]
         /\ lock' = release(p)
         /\ th' = [th EXCEPT ![p] = NoThread]
         /\ UNCHANGED <<wk, unfinished_tasks>>

\* an exception leaves _submit_batch: it ends the worker thread, or is caught
\* by emit (lines 386-387, handleError)
ProcRaise(p) ==
    /\ outcome' = [outcome EXCEPT ![p] = [resp |-> "raised", warned |-> FALSE, token |-> ""]]
    /\ IF p \in Streams
       THEN /\ pc' = [pc EXCEPT ![p] = "dead"]
            /\ UNCHANGED <<wk, unfinished_tasks, th, ret, lock>>
       ELSE /\ pc' = [pc EXCEPT ![p] = "idle"]
            /\ ret' = [ret EXCEPT ![p] = "emit_handle_error"]
            /\ lock' = release(p)
            /\ th' = [th EXCEPT ![p] = NoThread]
            /\ UNCHANGED <<wk, unfinished_tasks>>

\* history: the token the stream is due to have stored once a submission
\* ended with response: the next token of an accepted response; when it has
\* none, what a token error or a stream creation of this submission left, else
\* the token stored before
Due(st, response) ==
    IF response.kind # "ok" THEN ""
    ELSE IF response.next # NoToken THEN response.next
    ELSE IF st.expect # "keep" THEN st.expect
    ELSE sequence_tokens[st.stream]

FailedIgnoresRejection(response) == response.kind # "ok"

\* line 344: response is None or "rejectedLogEventsInfo" in response
Failed(response) == response.kind # "ok" \/ response.rejected

\* lines 343-349: what _submit_batch does with the response it ended with
Resolve(p, response) ==
    /\ outcome' = [outcome EXCEPT ![p] =
                      [resp |-> IF response.kind # "ok" THEN "failed"
                                ELSE IF response.rejected THEN "rejected" ELSE "ok",
                       warned |-> Failed(response),
                       token |-> Due(sub[p], response)]]
    /\ sequence_tokens' = IF ~Failed(response) /\ response.next # NoToken
                          THEN [sequence_tokens EXCEPT ![sub[p].stream] = response.next]
                          ELSE sequence_tokens
    /\ sub' = [sub EXCEPT ![p] = NoSub]
    /\ ProcReturn(p)

NextAttemptNoCap(p, st) ==
    /\ sub' = [sub EXCEPT ![p] = st]
    /\ pc' = [pc EXCEPT ![p] = "put"]
    /\ UNCHANGED <<wk, unfinished_tasks, th, ret, lock, outcome, sequence_tokens>>

\* the for loop's next iteration (line 309), or its end with response None
NextAttempt(p, st) ==
    IF st.retry >= max_retries
    THEN Resolve(p, NoResponse)
    ELSE /\ sub' = [sub EXCEPT ![p] = st]
         /\ pc' = [pc EXCEPT ![p] = "put"]
         /\ UNCHANGED <<wk, unfinished_tasks, th, ret, lock, outcome, sequence_tokens>>

\* e.response["Error"]["Message"] of a DataAlreadyAccepted or
\* InvalidSequenceToken error that names token T, as words
ErrorMessage(T) == <<"The", "next", "expected", "sequenceToken", "is:", T>>

\* what put_log_events can answer for a stream
Responses(stream) ==
    (IF stream \in remote_streams
     THEN { [kind |-> "ok", next |-> n, rejected |-> r, message |-> <<>>] :
                n \in Tokens \cup (IF scn.faults THEN {NoToken} ELSE {}),
                r \in (IF scn.faults THEN BOOLEAN ELSE {FALSE}) }
          \cup (IF scn.faults
                THEN { [kind |-> "token", next |-> NoToken, rejected |-> FALSE,
                        message |-> ErrorMessage(n)] : n \in Tokens \cup {"null"} }
                ELSE {})
     ELSE {[kind |-> "notfound", next |-> NoToken, rejected |-> FALSE, message |-> <<>>]})
    \cup (IF scn.faults
          THEN { [kind |-> k, next |-> NoToken, rejected |-> FALSE, message |-> <<>>] :
                    k \in {"clienterror", "exception"} }
          ELSE {})

\* line 316: e.response["Error"]["Message"].rsplit(" ", 1)[-1]
next_expected_token(message) == message[Len(message)]

CorrectedTokenLiteral(message) == next_expected_token(message)

\* lines 316-322: the sequenceToken of kwargs after a token error, NoToken when
\* the key was popped
CorrectedToken(message) ==
    IF next_expected_token(message) = "null" THEN NoToken
    ELSE next_expected_token(message)

ShouldCreateAlways(r) == r.kind = "notfound"

\* lines 323-324
ShouldCreate(r) == r.kind = "notfound" /\ cfg.create_log_stream

\* the token the service last named for a stream, once it answered r: the
\* nextSequenceToken of a response that has one, the expected token of a token
\* error, else what it was
Told(r, was) ==
    CASE r.kind = "ok" /\ r.next # NoToken -> r.next
      [] r.kind = "token" -> IF r.message[Len(r.message)] = "null" THEN NoToken
                             ELSE r.message[Len(r.message)]
      [] OTHER -> was

\* lines 309-349: one put_log_events call and what follows it, up to the next
\* remote call or the return
PutLogEvents(p) ==
    /\ pc[p] = "put"
    /\ \E r \in Responses(sub[p].stream) :
        LET st == sub[p]
            again == [st EXCEPT !.retry = @ + 1, !.after = ""]
        IN  /\ sent' = sent \cup Ids(st.events)
            /\ latest' = [latest EXCEPT ![st.stream] = Told(r, @)]
            /\ CASE r.kind = "ok" ->
                      Resolve(p, r) /\ UNCHANGED creating_log_stream
                 [] r.kind = "token" ->
                      /\ NextAttempt(p, [again EXCEPT
                                            !.token = CorrectedToken(r.message),
                                            !.after = next_expected_token(r.message),
                                            !.expect = CorrectedToken(r.message)])
                      /\ UNCHANGED creating_log_stream
                 [] ShouldCreate(r) ->
                      /\ creating_log_stream' = TRUE
                      /\ pc' = [pc EXCEPT ![p] = "create"]
                      /\ UNCHANGED <<sequence_tokens, sub, wk, unfinished_tasks, th, ret,
                                     lock, outcome>>
                 [] OTHER ->
                      /\ NextAttempt(p, again)
                      /\ UNCHANGED creating_log_stream
    /\ UNCHANGED <<scn, cfg, created, now, queues, qitems, shutting_down, remote_streams,
                   emitted, enq, handed, late, dropped, warned, ncalls>>

AfterCreateKeepsToken(st, o) ==
    [st EXCEPT !.retry = @ + 1, !.after = o,
               !.expect = IF o = "aborted" THEN @ ELSE NoToken]

\* line 335 and the loop's next turn: kwargs after create_log_stream answered o
AfterCreate(st, o) ==
    [st EXCEPT !.token = NoToken, !.retry = @ + 1, !.after = o,
               !.expect = IF o = "aborted" THEN @ ELSE NoToken]

\* lines 326-337: the create_log_stream call of _idempotent_call and what
\* follows it.  It creates the stream, finds it already there
\* (ResourceAlreadyExistsException), is aborted (OperationAbortedException), or
\* fails with any other error
CreateLogStream(p) ==
    /\ pc[p] = "create"
    /\ creating_log_stream' = FALSE
    /\ \E o \in (IF scn.faults THEN {"created", "exists", "aborted", "error"}
                 ELSE {"created"}) :
        IF o = "error"
        THEN /\ sub' = [sub EXCEPT ![p] = NoSub]
             /\ ProcRaise(p)
             /\ UNCHANGED <<remote_streams, latest, sequence_tokens>>
        ELSE /\ remote_streams' = IF o = "aborted" THEN remote_streams
                                  ELSE remote_streams \cup {sub[p].stream}
             /\ latest' = IF o = "aborted" THEN latest
                          ELSE [latest EXCEPT ![sub[p].stream] = NoToken]
             /\ NextAttempt(p, AfterCreate(sub[p], o))
    /\ UNCHANGED <<scn, cfg, created, now, queues, qitems, shutting_down,
                   emitted, enq, handed, sent, late, dropped, warned, ncalls>>

\* the stream is deleted at the service, by someone else
RemoteDelete(s) ==
    /\ scn.faults
    /\ s \in remote_streams
    /\ remote_streams' = remote_streams \ {s}
    /\ UNCHANGED <<scn, cfg, lock, created, outcome, latest, now, queues, qitems,
                   unfinished_tasks, sequence_tokens, shutting_down, creating_log_stream,
                   pc, wk, th, sub, emitted, enq, handed, sent, late, dropped, warned,
                   ncalls, ret>>

(* ------------------------------------------------------------------ *)
(* _dequeue_batch (lines 389-430), the worker of stream s             *)
(* ------------------------------------------------------------------ *)

FlushTriggerNoDeadline(w, m) ==
    \/ m = None
    \/ m.sig = END
    \/ m.sig = FLUSH
    \/ w.cur_batch_size + size(m) > cfg.max_batch_size
    \/ w.cur_batch_msg_count >= cfg.max_batch_count

\* lines 415-420
FlushTrigger(w, m) ==
    \/ m = None
    \/ m.sig = END
    \/ m.sig = FLUSH
    \/ w.cur_batch_size + size(m) > cfg.max_batch_size
    \/ w.cur_batch_msg_count >= cfg.max_batch_count
    \/ now >= w.cur_batch_deadline

\* line 410
NeedsTruncate(m) == size(m) > max_message_body_size

QueueGetNewest(q) == <<q[Len(q)], SubSeq(q, 1, Len(q) - 1)>>

\* my_queue.get (line 409) on a queue that holds items: the item and the rest
QueueGet(q) == <<Head(q), Tail(q)>>

TimedOutAtOnce(w) == TRUE

\* line 409: my_queue.get(timeout=max(0, cur_batch_deadline - time.time()))
\* raises queue.Empty
TimedOut(w) == now >= w.cur_batch_deadline

\* lines 407-430: one turn of the inner loop, from my_queue.get to the next
\* my_queue.get or to the first remote call of _submit_batch
DequeueStep(s) ==
    /\ pc[s] = "get"
    /\ qitems[s] # <<>> \/ TimedOut(wk[s])
    /\ LET w == wk[s]
           got == IF qitems[s] # <<>> THEN QueueGet(qitems[s])[1] ELSE None
           trunc == got # None /\ NeedsTruncate(got)
           m == IF trunc /\ IsRecord(got) THEN truncate(got) ELSE got
       IN  /\ qitems' = [qitems EXCEPT ![s] = IF @ = <<>> THEN @ ELSE QueueGet(@)[2]]
           /\ warned' = IF trunc THEN warned \cup {got.id} ELSE warned
           /\ IF trunc /\ ~IsRecord(got)
              THEN \* truncate subscripts an int: TypeError ends the thread
                   /\ pc' = [pc EXCEPT ![s] = "dead"]
                   /\ UNCHANGED <<wk, unfinished_tasks, sub, handed>>
              ELSE IF FlushTrigger(w, m)
              THEN IF EmptyBatch(w.cur_batch)
                   THEN WorkerResume(s, m) /\ UNCHANGED <<sub, handed>>
                   ELSE /\ BeginSubmit(s, w.cur_batch, s)
                        /\ wk' = [wk EXCEPT ![s].msg = m]
                        /\ UNCHANGED unfinished_tasks
              ELSE /\ wk' = [wk EXCEPT ![s] =
                               [msg |-> m,
                                cur_batch |-> Append(w.cur_batch, m),
                                cur_batch_size |-> w.cur_batch_size + size(m),
                                cur_batch_msg_count |-> w.cur_batch_msg_count + 1,
                                cur_batch_deadline |-> w.cur_batch_deadline]]
                   /\ unfinished_tasks' = [unfinished_tasks EXCEPT ![s] = @ - 1]
                   /\ UNCHANGED <<pc, sub, handed>>
    /\ UNCHANGED <<scn, cfg, lock, created, outcome, latest, now, queues, sequence_tokens, shutting_down,
                   creating_log_stream, remote_streams, th, emitted, enq, sent, late,
                   dropped, ncalls, ret>>

\* a thread that can take a step without waiting for the clock or the service
Busy ==
    \/ \E s \in Streams : pc[s] = "get" /\ qitems[s] # <<>>
    \/ \E t \in Threads : pc[t] \in {"emit_create", "emit_check", "emit_put"}

Tick ==
    /\ now < MaxTime
    /\ scn.prompt => ~Busy
    /\ now' = now + 1
    /\ UNCHANGED <<scn, cfg, lock, created, outcome, latest, queues, qitems, unfinished_tasks, sequence_tokens,
                   shutting_down, creating_log_stream, remote_streams, pc, wk, th, sub,
                   emitted, enq, handed, sent, late, dropped, warned, ncalls, ret>>

(* ------------------------------------------------------------------ *)
(* emit (lines 355-387), called by application thread t               *)
(* ------------------------------------------------------------------ *)

EnqIds == UNION { { enq[s][i] : i \in 1..Len(enq[s]) } : s \in Streams }

\* what can go wrong inside one emit call: message.getMessage() raises (line
\* 359), _get_stream_name raises (line 364), self.format raises (line 369)
Failures == {"none", "render", "resolve", "format"}

UseQueuesAlways == TRUE

\* line 371: self.use_queues
UseQueues == cfg.use_queues

IsEmptyNever(n) == FALSE

\* line 359: message.getMessage() == ""
IsEmpty(n) == n = 0

\* lines 355-372 and 385, with the lock of Handler.handle taken: from the call
\* to the test of self.queues (queued mode) or to the first remote call of
\* _submit_batch (use_queues false)
Emit(t, stream, ts, n, f) ==
    /\ pc[t] = "idle"
    /\ t \in scn.threads
    /\ stream \in scn.streams
    /\ ts \in scn.stamps
    /\ n \in scn.lens
    /\ f \in (IF scn.faults THEN Failures ELSE {"none"})
    /\ Len(emitted) < scn.emits
    /\ scn.burst => now = 0
    /\ acquire(t)
    /\ IF creating_log_stream
       THEN /\ ret' = [ret EXCEPT ![t] = "emit_guarded"]
            /\ UNCHANGED <<pc, th, sub, handed, sequence_tokens, emitted, late, lock>>
       ELSE IF f = "render"
       THEN \* outside the try block: the exception leaves emit
            /\ ret' = [ret EXCEPT ![t] = "emit_raised"]
            /\ UNCHANGED <<pc, th, sub, handed, sequence_tokens, emitted, late, lock>>
       ELSE IF IsEmpty(n)
       THEN /\ ret' = [ret EXCEPT ![t] = "emit_empty_warned"]
            /\ UNCHANGED <<pc, th, sub, handed, sequence_tokens, emitted, late, lock>>
       ELSE IF f = "resolve"
       THEN /\ ret' = [ret EXCEPT ![t] = "emit_handle_error"]
            /\ UNCHANGED <<pc, th, sub, handed, sequence_tokens, emitted, late, lock>>
       ELSE IF f = "format"
       THEN /\ ret' = [ret EXCEPT ![t] = "emit_handle_error"]
            /\ sequence_tokens' = IF sequence_tokens[stream] = "missing"
                                  THEN [sequence_tokens EXCEPT ![stream] = NoToken]
                                  ELSE sequence_tokens
            /\ UNCHANGED <<pc, th, sub, handed, emitted, late, lock>>
       ELSE LET id == Len(emitted) + 1
                cwl_message == Message(id, ts, n)
            IN  /\ emitted' = Append(emitted, [stream |-> stream, message |-> cwl_message])
                /\ late' = IF shutting_down THEN late \cup {id} ELSE late
                /\ sequence_tokens' = IF sequence_tokens[stream] = "missing"
                                      THEN [sequence_tokens EXCEPT ![stream] = NoToken]
                                      ELSE sequence_tokens
                /\ th' = [th EXCEPT ![t] = [NoThread EXCEPT !.rec = cwl_message,
                                                            !.idx = 0]]
                /\ ret' = [ret EXCEPT ![t] = "emit_running"]
                /\ lock' = t
                /\ IF UseQueues
                   THEN /\ pc' = [pc EXCEPT ![t] =
                                     IF \E i \in 1..Len(queues) : queues[i] = stream
                                     THEN "emit_check" ELSE "emit_create"]
                        /\ UNCHANGED <<sub, handed>>
                   ELSE BeginSubmit(t, <<cwl_message>>, stream)
    /\ UNCHANGED <<scn, cfg, created, outcome, latest, now, queues, qitems, unfinished_tasks, wk,
                   shutting_down, creating_log_stream, remote_streams, enq, sent,
                   dropped, warned, ncalls>>

\* the stream a thread inside emit is admitting to
StreamOf(t) == emitted[th[t].rec.id].stream

\* lines 373-379: the new Queue is stored under the stream's name and its
\* worker thread is started.  (Were the name already there, the Queue and the
\* worker it had would be left behind, unreachable through self.queues.)
EmitCreate(t) ==
    /\ pc[t] = "emit_create"
    /\ LET s == StreamOf(t)
       IN  /\ queues' = IF \E i \in 1..Len(queues) : queues[i] = s
                        THEN queues ELSE Append(queues, s)
           /\ qitems' = [qitems EXCEPT ![s] = <<>>]
           /\ unfinished_tasks' = [unfinished_tasks EXCEPT ![s] = 0]
           /\ wk' = [wk EXCEPT ![s] = NewBatch(None)]
           /\ created' = [created EXCEPT ![s] = @ + 1]
           /\ pc' = [pc EXCEPT ![t] = "emit_check", ![s] = "get"]
    /\ UNCHANGED <<scn, cfg, lock, outcome, latest, now, sequence_tokens, shutting_down,
                   creating_log_stream, remote_streams, th, sub, emitted, enq, handed,
                   sent, late, dropped, warned, ncalls, ret>>

EmitIgnoresShutdown == FALSE

\* line 380: what emit reads
EmitSeesShutdown == shutting_down

\* lines 380-381
EmitCheck(t) ==
    /\ pc[t] = "emit_check"
    /\ IF EmitSeesShutdown
       THEN /\ dropped' = dropped \cup {th[t].rec.id}
            /\ ret' = [ret EXCEPT ![t] = "emit_shutdown_warned"]
            /\ pc' = [pc EXCEPT ![t] = "idle"]
            /\ th' = [th EXCEPT ![t] = NoThread]
            /\ lock' = release(t)
       ELSE /\ pc' = [pc EXCEPT ![t] = "emit_put"]
            /\ UNCHANGED <<dropped, ret, th, lock>>
    /\ UNCHANGED <<scn, cfg, created, outcome, latest, now, queues, qitems, unfinished_tasks, sequence_tokens,
                   shutting_down, creating_log_stream, remote_streams, wk, sub,
                   emitted, enq, handed, sent, late, warned, ncalls>>

\* line 383
EmitPut(t) ==
    /\ pc[t] = "emit_put"
    /\ LET s == StreamOf(t)
       IN  /\ qitems' = [qitems EXCEPT ![s] = Append(@, th[t].rec)]
           /\ unfinished_tasks' = [unfinished_tasks EXCEPT ![s] = @ + 1]
           /\ enq' = [enq EXCEPT ![s] = Append(@, th[t].rec.id)]
    /\ pc' = [pc EXCEPT ![t] = "idle"]
    /\ ret' = [ret EXCEPT ![t] = "emit_queued"]
    /\ th' = [th EXCEPT ![t] = NoThread]
    /\ lock' = release(t)
    /\ UNCHANGED <<scn, cfg, created, outcome, latest, now, queues, sequence_tokens, shutting_down,
                   creating_log_stream, remote_streams, wk, sub, emitted, handed, sent,
                   late, dropped, warned, ncalls>>

(* ------------------------------------------------------------------ *)
(* flush (lines 432-443) and close (lines 445-462)                    *)
(* ------------------------------------------------------------------ *)

FlushNeverNoop == FALSE

\* line 438
FlushIsNoop == shutting_down

\* lines 436-440: the call, the read of shutting_down, and the first next() of
\* the iterator over self.queues.values()
FlushCall(t) ==
    /\ pc[t] = "idle"
    /\ t \in scn.threads
    /\ ncalls < MaxCalls
    /\ ncalls' = ncalls + 1
    /\ IF FlushIsNoop
       THEN /\ ret' = [ret EXCEPT ![t] = "flush_noop"]
            /\ UNCHANGED <<pc, th>>
       ELSE IF Len(queues) = 0
       THEN /\ ret' = [ret EXCEPT ![t] = "flush_returned"]
            /\ th' = [th EXCEPT ![t] = NoThread]
            /\ UNCHANGED pc
       ELSE /\ pc' = [pc EXCEPT ![t] = "flush_put"]
            /\ th' = [th EXCEPT ![t] = [NoThread EXCEPT !.idx = 1, !.used = Len(queues),
                                                        !.snap = EnqIds]]
            /\ ret' = [ret EXCEPT ![t] = "flush_running"]
    /\ UNCHANGED <<scn, cfg, lock, created, outcome, latest, now, queues, qitems, unfinished_tasks, sequence_tokens,
                   shutting_down, creating_log_stream, remote_streams, wk, sub,
                   emitted, enq, handed, sent, late, dropped, warned>>

CloseNeverNoop == FALSE

\* line 455
CloseIsNoop == shutting_down

\* lines 451-456: the call and the read of shutting_down
CloseCall(t) ==
    /\ pc[t] = "idle"
    /\ t \in scn.threads
    /\ ncalls < MaxCalls
    /\ ncalls' = ncalls + 1
    /\ IF CloseIsNoop
       THEN /\ ret' = [ret EXCEPT ![t] = "close_noop"]
            /\ UNCHANGED <<pc, th>>
       ELSE /\ pc' = [pc EXCEPT ![t] = "close_set"]
            /\ th' = [th EXCEPT ![t] = [NoThread EXCEPT !.snap = EnqIds]]
            /\ ret' = [ret EXCEPT ![t] = "close_running"]
    /\ UNCHANGED <<scn, cfg, lock, created, outcome, latest, now, queues, qitems, unfinished_tasks, sequence_tokens,
                   shutting_down, creating_log_stream, remote_streams, wk, sub,
                   emitted, enq, handed, sent, late, dropped, warned>>

\* lines 457-458: the write of shutting_down and the first next() of the
\* iterator over self.queues.values(); with no queue, lines 460-462 too
CloseSet(t) ==
    /\ pc[t] = "close_set"
    /\ shutting_down' = TRUE
    /\ IF Len(queues) = 0
       THEN /\ ret' = [ret EXCEPT ![t] = "close_returned"]
            /\ pc' = [pc EXCEPT ![t] = "idle"]
            /\ UNCHANGED th
       ELSE /\ pc' = [pc EXCEPT ![t] = "close_put"]
            /\ th' = [th EXCEPT ![t].idx = 1, ![t].used = Len(queues)]
            /\ UNCHANGED ret
    /\ UNCHANGED <<scn, cfg, lock, created, outcome, latest, now, queues, qitems, unfinished_tasks, sequence_tokens,
                   creating_log_stream, remote_streams, wk, sub, emitted, enq, handed,
                   sent, late, dropped, warned, ncalls>>

OpOf(t) == IF pc[t] \in {"flush_put", "flush_join"} THEN "flush" ELSE "close"

\* the iterator's next() after the loop body ran for queues[th[t].idx]: a dict
\* that changed size raises RuntimeError, the end of the dict ends the loop
IterNext(t, thenPc, endPc, endRet) ==
    IF Len(queues) # th[t].used
    THEN /\ pc' = [pc EXCEPT ![t] = "idle"]
         /\ ret' = [ret EXCEPT ![t] = IF OpOf(t) = "flush" THEN "flush_raised"
                                      ELSE "close_raised"]
         /\ UNCHANGED th
    ELSE IF th[t].idx >= th[t].used
    THEN /\ pc' = [pc EXCEPT ![t] = endPc]
         /\ ret' = [ret EXCEPT ![t] = IF endRet = "" THEN @ ELSE endRet]
         /\ th' = [th EXCEPT ![t].idx = 1]
    ELSE /\ pc' = [pc EXCEPT ![t] = thenPc]
         /\ th' = [th EXCEPT ![t].idx = @ + 1]
         /\ UNCHANGED ret

\* lines 440-441 and 458-459: q.put(self.FLUSH) or q.put(self.END) for one
\* queue, and the iterator's next()
SignalPut(t) ==
    /\ pc[t] \in {"flush_put", "close_put"}
    /\ LET s == queues[th[t].idx]
           k == IF pc[t] = "flush_put" THEN FLUSH ELSE END
       IN  /\ qitems' = [qitems EXCEPT ![s] = Append(@, Signal(k))]
           /\ unfinished_tasks' = [unfinished_tasks EXCEPT ![s] = @ + 1]
    /\ IF pc[t] = "flush_put"
       THEN IterNext(t, "flush_put", "flush_join", "")
       ELSE IterNext(t, "close_put", "close_join", "")
    /\ UNCHANGED <<scn, cfg, lock, created, outcome, latest, now, queues, sequence_tokens, shutting_down,
                   creating_log_stream, remote_streams, wk, sub, emitted, enq, handed,
                   sent, late, dropped, warned, ncalls>>

JoinDoneNoWait(s) == TRUE

\* Queue.join() returns
JoinDone(s) == unfinished_tasks[s] = 0

\* lines 442-443 and 460-462: q.join() for one queue, and the iterator's
\* next(); after the last queue the call returns
QueueJoin(t) ==
    /\ pc[t] \in {"flush_join", "close_join"}
    /\ JoinDone(queues[th[t].idx])
    /\ IF pc[t] = "flush_join"
       THEN IterNext(t, "flush_join", "idle", "flush_returned")
       ELSE IterNext(t, "close_join", "idle", "close_returned")
    /\ UNCHANGED <<scn, cfg, lock, created, outcome, latest, now, queues, qitems, unfinished_tasks, sequence_tokens,
                   shutting_down, creating_log_stream, remote_streams, wk, sub,
                   emitted, enq, handed, sent, late, dropped, warned, ncalls>>

Init ==
    /\ scn \in Scenarios
    /\ cfg \in scn.configs
    /\ now = 0
    /\ queues = <<>>
    /\ qitems = [s \in Streams |-> <<>>]
    /\ unfinished_tasks = [s \in Streams |-> 0]
    /\ sequence_tokens = [s \in Streams |-> "missing"]
    /\ shutting_down = FALSE
    /\ creating_log_stream = FALSE
    /\ remote_streams \in scn.remote
    /\ lock = ""
    /\ created = [s \in Streams |-> 0]
    /\ outcome = [p \in Procs |-> NoOutcome]
    /\ latest = [s \in Streams |-> NoToken]
    /\ pc = [p \in Procs |-> IF p \in Streams THEN "none" ELSE "idle"]
    /\ wk = [s \in Streams |-> NoLocals]
    /\ th = [t \in Threads |-> NoThread]
    /\ sub = [p \in Procs |-> NoSub]
    /\ emitted = <<>>
    /\ enq = [s \in Streams |-> <<>>]
    /\ handed = [s \in Streams |-> <<>>]
    /\ sent = {}
    /\ late = {}
    /\ dropped = {}
    /\ warned = {}
    /\ ncalls = 0
    /\ ret = [t \in Threads |-> "none"]

Next ==
    \/ \E t \in Threads, s \in Streams, ts \in Timestamps, n \in Lens, f \in Failures :
          Emit(t, s, ts, n, f)
    \/ \E t \in Threads : EmitCreate(t)
    \/ \E t \in Threads : EmitCheck(t)
    \/ \E t \in Threads : EmitPut(t)
    \/ \E t \in Threads : FlushCall(t)
    \/ \E t \in Threads : CloseCall(t)
    \/ \E t \in Threads : CloseSet(t)
    \/ \E t \in Threads : SignalPut(t)
    \/ \E t \in Threads : QueueJoin(t)
    \/ \E s \in Streams : DequeueStep(s)
    \/ \E p \in Procs : PutLogEvents(p)
    \/ \E p \in Procs : CreateLogStream(p)
    \/ \E s \in Streams : RemoteDelete(s)
    \/ Tick

Spec == Init /\ [][Next]_vars

\* Every worker thread and every thread inside close() keeps being scheduled,
\* and every remote call comes back (with an answer or with an exception).
Fairness ==
    /\ \A s \in Streams : WF_vars(DequeueStep(s))
    /\ \A p \in Procs : WF_vars(PutLogEvents(p)) /\ WF_vars(CreateLogStream(p))
    /\ \A t \in Threads : WF_vars(CloseSet(t) \/ SignalPut(t) \/ QueueJoin(t))

InitFaults == Init /\ scn.name = "faults"

\* one application thread that logs and then closes, under fair scheduling
SpecFair == InitFaults /\ [][Next]_vars /\ Fairness

(* ------------------------------------------------------------------ *)
(* Properties                                                         *)
(* ------------------------------------------------------------------ *)

HandedIds ==
    UNION { UNION { Ids(handed[s][i]) : i \in 1..Len(handed[s]) } : s \in Streams }

\* C1: when a flush() that found the handler not shutting down returns, every
\* record that was on some stream's queue before the call has been part of at
\* least one put_log_events call.
C1_FlushDrains ==
    \A t \in Threads : ret[t] = "flush_returned" => th[t].snap \subseteq sent

C1_Witness ==
    \E t \in Threads : ret[t] = "flush_returned" /\ th[t].snap # {}

\* C2: when the first close() returns, every record that was on some stream's
\* queue before the call has been part of at least one put_log_events call.
C2_CloseDrains ==
    \A t \in Threads : ret[t] = "close_returned" => th[t].snap \subseteq sent

C2_Witness ==
    \E t \in Threads : ret[t] = "close_returned" /\ Cardinality(th[t].snap) >= 2

\* C3: under fair scheduling and remote calls that come back, a first close()
\* eventually returns and by then every stream worker has terminated.
C3_CloseTerminates ==
    \A t \in Threads :
        (pc[t] = "close_set")
            ~> (ret[t] = "close_returned"
                /\ \A i \in 1..Len(queues) : pc[queues[i]] = "done")

\* C4: a close() call that finds shutting_down set returns at once: it puts
\* nothing on any queue, hands no batch over, makes no remote call and does not
\* wait.
C4_SecondCloseNoop ==
    [][\A t \in Threads :
          (CloseCall(t) /\ shutting_down)
              => /\ pc'[t] = "idle"
                 /\ ret'[t] = "close_noop"
                 /\ qitems' = qitems
                 /\ unfinished_tasks' = unfinished_tasks
                 /\ handed' = handed
                 /\ sent' = sent]_vars

C4_Witness ==
    \E t \in Threads : ret[t] = "close_noop" /\ queues # <<>>

\* the records some thread is still admitting
InEmit == { th[t].rec.id : t \in { u \in Threads : pc[u] \in {"emit_create", "emit_check",
                                                             "emit_put", "put",
                                                             "create"} } }

\* C5: with use_queues, a record whose emit began after shutting_down was set
\* is never put on a queue, and its emit ends with the warning "Received
\* message after logging system shutdown".
C5_NoQueueAfterShutdown ==
    cfg.use_queues =>
        /\ late \cap EnqIds = {}
        /\ \A t \in Threads : pc[t] = "emit_put" => th[t].rec.id \notin late
        /\ late \ InEmit \subseteq dropped

C5_Witness ==
    cfg.use_queues /\ late \cap dropped # {}

\* C6 as stated: whatever the configuration, a record whose emit began after
\* close() set shutting_down is in no remote call, no create_log_stream call is
\* made for it, and its emit ends with the shutdown warning.
C6_NoRemoteCallAfterClose ==
    /\ late \cap sent = {}
    /\ \A t \in Threads : pc[t] \in {"put", "create"} => th[t].rec.id \notin late
    /\ late \ InEmit \subseteq dropped

\* C6 amended: the same, for handlers with use_queues enabled.
C6_NoRemoteCallAfterCloseQueued ==
    cfg.use_queues => C6_NoRemoteCallAfterClose

C6_Witness ==
    cfg.use_queues /\ sent # {} /\ \E id \in late : id \in dropped /\ id \notin sent

\* C7: every batch a worker hands to _submit_batch holds at most
\* max_batch_count records whose sizes (length + 26) sum to at most
\* max_batch_size.
C7_BatchBounds ==
    cfg.use_queues =>
        \A s \in Streams : \A i \in 1..Len(handed[s]) :
            /\ SumSize(handed[s][i]) <= cfg.max_batch_size
            /\ Len(handed[s][i]) <= cfg.max_batch_count

\* C8: every record of a batch handed to _submit_batch carries its message cut
\* to max_message_size - 26 characters when it was longer and unchanged
\* otherwise, so its size is at most max_message_size.
C8_Truncated ==
    \A s \in Streams : \A i \in 1..Len(handed[s]) : \A j \in 1..Len(handed[s][i]) :
        LET r == handed[s][i][j]
        IN  /\ r.len = Min(emitted[r.id].message.len, max_message_body_size)
            /\ size(r) <= cfg.max_message_size

\* events is batch reordered, non-decreasing in timestamp, records of equal
\* timestamp in the order they have in batch
IsStableSortOf(events, batch) ==
    /\ Len(events) = Len(batch)
    /\ \E f \in [1..Len(events) -> 1..Len(batch)] :
        /\ \A i, j \in 1..Len(events) : i # j => f[i] # f[j]
        /\ \A i \in 1..Len(events) : events[i] = batch[f[i]]
        /\ \A i, j \in 1..Len(events) :
              i < j => \/ events[i].timestamp < events[j].timestamp
                       \/ events[i].timestamp = events[j].timestamp /\ f[i] < f[j]

\* C9: the logEvents of every put_log_events call are the assembled batch in
\* non-decreasing timestamp order, records of equal timestamp in arrival order.
C9_SortedStable ==
    \A p \in Procs : pc[p] \in {"put", "create"} => IsStableSortOf(sub[p].events, sub[p].batch)

C9_Witness ==
    \E p \in Procs : pc[p] = "put" /\ Len(sub[p].events) >= 3 /\ sub[p].events # sub[p].batch

\* the place of the batch of stream s that holds record id, 0 when none does
BatchOf(s, id) ==
    IF \E k \in 1..Len(handed[s]) : id \in Ids(handed[s][k])
    THEN CHOOSE k \in 1..Len(handed[s]) : id \in Ids(handed[s][k])
    ELSE 0

\* C10: for two records put on the same stream's queue, the later one is in no
\* earlier batch than the first, and is handed over only once the first is.
C10_FifoBatches ==
    \A s \in Streams : \A i, j \in 1..Len(enq[s]) :
        (i < j /\ BatchOf(s, enq[s][j]) > 0)
            => /\ BatchOf(s, enq[s][i]) > 0
               /\ BatchOf(s, enq[s][i]) <= BatchOf(s, enq[s][j])

C10_Witness ==
    \E s \in Streams :
        /\ Len(enq[s]) >= 2
        /\ BatchOf(s, enq[s][1]) > 0
        /\ BatchOf(s, enq[s][2]) > BatchOf(s, enq[s][1])

\* C11: every stream name has at most one queue and one worker, made by the
\* first admission for that name and by nothing else, also when two threads
\* log to the same new name at the same time.
C11_OneWorkerPerStream ==
    \A s \in Streams :
        /\ created[s] <= 1
        /\ created[s] = 1 <=> \E i \in 1..Len(queues) : queues[i] = s
        /\ created[s] = 1 <=> pc[s] # "none"
        /\ created[s] = 1 => \E i \in 1..Len(emitted) : emitted[i].stream = s

C11_Witness ==
    \E t, u \in Threads :
        /\ t # u
        /\ pc[t] = "emit_put"
        /\ ret[u] = "emit_queued"
        /\ created[StreamOf(t)] = 1
        /\ Len(enq[StreamOf(t)]) = 1
        /\ \A s \in Streams \ {StreamOf(t)} : enq[s] = <<>>

\* C12: an emit of a record whose message is empty, made while no stream is
\* being created, ends with the warning "Received empty message" and changes
\* nothing: no token entry, queue or worker is made, nothing is queued or
\* submitted, with use_queues on and off.
C12_EmptyRejected ==
    [][\A t \in Threads, s \in Streams, ts \in Timestamps, f \in Failures \ {"render"} :
          (Emit(t, s, ts, 0, f) /\ ~creating_log_stream)
              => /\ ret'[t] = "emit_empty_warned"
                 /\ UNCHANGED <<queues, qitems, unfinished_tasks, sequence_tokens, pc, wk,
                                sub, emitted, created, enq, handed, sent,
                                remote_streams>>]_vars

C12_Witness ==
    \E t \in Threads : ret[t] = "emit_empty_warned" /\ ~cfg.use_queues /\ sent # {}

\* C13: no call of emit ends with an exception reaching its caller.
C13_EmitNeverRaises ==
    \A t \in Threads : ret[t] # "emit_raised"

\* C14: no failure of a put_log_events or create_log_stream call makes
\* _submit_batch raise: no submission ends with an exception and no worker
\* thread is ended by one.
C14_SubmitNeverRaises ==
    /\ \A p \in Procs : outcome[p].resp # "raised"
    /\ \A s \in Streams : pc[s] # "dead"

\* the records of the submissions that have not made their first call yet
NotYetPut == UNION { Ids(sub[p].batch) : p \in { q \in Procs : pc[q] = "put" /\ sub[q].retry = 0 } }

\* the records waiting on stream s's queue or in its worker's open batch
Pending(s) ==
    { qitems[s][i].id : i \in { j \in 1..Len(qitems[s]) : IsRecord(qitems[s][j]) } }
        \cup (IF pc[s] = "get" THEN Ids(wk[s].cur_batch) ELSE {})

\* C15: every submission makes between one and max_retries put_log_events
\* calls; one that ends without an accepted response, or with a partly
\* rejected one, ends with the warning; a record handed over once is in no
\* second batch and goes back to no queue.
C15_BoundedAttempts ==
    /\ \A p \in Procs : pc[p] = "put" => sub[p].retry < max_retries
    /\ HandedIds \ NotYetPut \subseteq sent
    /\ \A p \in Procs : outcome[p].resp \in {"failed", "rejected"} => outcome[p].warned
    /\ \A s \in Streams : \A i \in 1..Len(handed[s]) :
          /\ Cardinality(Ids(handed[s][i])) = Len(handed[s][i])
          /\ \A s2 \in Streams : \A j \in 1..Len(handed[s2]) :
                (s # s2 \/ i # j) => Ids(handed[s][i]) \cap Ids(handed[s2][j]) = {}
    /\ \A s \in Streams : Pending(s) \cap HandedIds = {}

C15_Witness ==
    \E s \in Streams :
        /\ outcome[s].resp = "failed"
        /\ outcome[s].warned
        /\ Len(handed[s]) = 1
        /\ pc[s] = "get"
        /\ Pending(s) = {}

\* C16: a put answered stream-not-found with create_log_stream enabled sets
\* creating_log_stream; the create call that follows resets it, and when it
\* created the stream or found it already there the stream exists and the next
\* attempt sends the same batch without a sequenceToken; an emit made while
\* creating_log_stream is set admits nothing.
C16_CreateAndRetry ==
    [][/\ \A p \in Procs :
            (pc[p] = "put" /\ pc'[p] = "create") => creating_log_stream'
       /\ \A p \in Procs :
            (pc[p] = "create" /\ pc'[p] # "create")
                => /\ ~creating_log_stream'
                   /\ pc'[p] = "put"
                        => /\ sub'[p].token = NoToken
                           /\ sub'[p].events = sub[p].events
                           /\ sub'[p].after \in {"created", "exists"}
                                => sub'[p].stream \in remote_streams'
       /\ \A t \in Threads, s \in Streams, ts \in Timestamps, n \in Lens, f \in Failures :
            (creating_log_stream /\ Emit(t, s, ts, n, f))
                => UNCHANGED <<queues, qitems, unfinished_tasks, sequence_tokens, pc, wk,
                               sub, emitted, created, enq, handed, sent>>]_vars

C16_Witness ==
    \E p \in Procs :
        /\ pc[p] = "put"
        /\ sub[p].after = "exists"
        /\ sub[p].token = NoToken
        /\ sequence_tokens[sub[p].stream] \in Tokens

\* C17: a create_log_stream call is pending only after a put answered
\* stream-not-found, for a stream that does not exist, with create_log_stream
\* enabled.
C17_CreateOnlyOnNotFound ==
    [][\A p \in Procs :
          pc'[p] = "create"
              => /\ cfg.create_log_stream
                 /\ sub'[p].stream \notin remote_streams'
                 /\ pc[p] \in {"put", "create"}
                 /\ sub'[p] = sub[p]]_vars

C17_Witness ==
    \E p \in Procs : pc[p] = "create" /\ sequence_tokens[sub[p].stream] \in Tokens

\* C18: the attempt that follows a token error naming T carries T; the one that
\* follows a token error naming "null" carries no sequenceToken; "null" is
\* never sent as a token.
C18_CorrectedToken ==
    \A p \in Procs :
        /\ sub[p].token # "null"
        /\ (pc[p] = "put" /\ sub[p].after \in Tokens) => sub[p].token = sub[p].after
        /\ (pc[p] = "put" /\ sub[p].after = "null") => sub[p].token = NoToken

C18_Witness ==
    \E p \in Procs :
        /\ pc[p] = "put"
        /\ sub[p].after = "null"
        /\ sub[p].token = NoToken
        /\ sequence_tokens[sub[p].stream] \in Tokens

\* C19: whenever no submission to a stream is under way, the token stored for
\* it is the one the service last named for it: the next token of the last
\* response that carried one, or absent when the service has named none since
\* the stream was created.
C19_StoredTokenIsLatest ==
    \A s \in Streams :
        (/\ sequence_tokens[s] # "missing"
         /\ \A p \in Procs : pc[p] \in {"put", "create"} => sub[p].stream # s)
            => sequence_tokens[s] = latest[s]

\* C20: with send_interval 1, three records logged to stream "a" at time 0 by
\* threads that keep up with the clock, and no flush() or close(): the worker
\* hands over one batch only, it holds the three records, it is handed over
\* once the deadline passed and the queue read timed out, and then the worker
\* waits with an empty batch.
C20_TimeTriggered ==
    (/\ scn.burst /\ scn.prompt
     /\ cfg.send_interval = 1
     /\ ncalls = 0
     /\ Len(enq["a"]) = 3)
        => /\ Len(handed["a"]) <= 1
           /\ Len(handed["a"]) = 1
                => /\ Ids(handed["a"][1]) = {enq["a"][i] : i \in 1..3}
                   /\ now >= cfg.send_interval
                   /\ pc["a"] = "put" => wk["a"].msg = None
           /\ (/\ now >= cfg.send_interval
               /\ pc["a"] = "get"
               /\ qitems["a"] = <<>>
               /\ wk["a"].cur_batch = <<>>) => Len(handed["a"]) = 1

C20_Witness ==
    /\ scn.burst /\ scn.prompt
    /\ ncalls = 0
    /\ Len(enq["a"]) = 3
    /\ Len(handed["a"]) = 1
    /\ Len(handed["a"][1]) = 3
    /\ pc["a"] = "get"

\* a record of the batch under assembly fits: in bytes and in count
Fits(w, m) ==
    /\ SumBytes(w.cur_batch) + ByteSize(m) <= cfg.max_batch_size
    /\ Len(w.cur_batch) < cfg.max_batch_count

\* a step of worker s that pulls a record before the batch deadline
PullsRecord(s) ==
    /\ DequeueStep(s)
    /\ qitems[s] # <<>>
    /\ IsRecord(Head(qitems[s]))
    /\ now < wk[s].cur_batch_deadline

\* with records of which no two fit a batch together, every batch has one
OnePerBatch ==
    (/\ cfg.use_queues
     /\ \A i \in 1..Len(emitted) :
           /\ ByteSize(emitted[i].message) <= cfg.max_message_size
           /\ ByteSize(emitted[i].message) <= cfg.max_batch_size
           /\ 2 * ByteSize(emitted[i].message) > cfg.max_batch_size)
        => \A s \in Streams : \A i \in 1..Len(handed[s]) : Len(handed[s][i]) = 1

\* three records over max_message_size, max_batch_size twice max_message_size,
\* then one flush(), all within one send_interval: two batches
TwoBatches ==
    (/\ cfg.use_queues
     /\ cfg.max_batch_size = 2 * cfg.max_message_size
     /\ cfg.max_batch_count >= 3
     /\ now = 0
     /\ ncalls = 1
     /\ \E t \in Threads : ret[t] = "flush_returned"
     /\ Len(enq["a"]) = 3
     /\ \A i \in 1..Len(emitted) : ByteSize(emitted[i].message) > cfg.max_message_size)
        => Len(handed["a"]) = 2

\* C21: a record pulled before the deadline joins the batch under assembly
\* when it fits (in bytes and in count); otherwise that batch is handed over
\* and the record is kept to seed the next.  So records of which no two fit
\* together go one per batch, and three records cut to max_message_size, with
\* max_batch_size twice that, followed by flush() make two batches (the 5
\* records, 256KiB and 1MiB of the test, scaled down).
C21_GreedyFill ==
    [][/\ \A s \in Streams :
            PullsRecord(s)
                => IF Fits(wk[s], wk'[s].msg)
                   THEN /\ wk'[s].cur_batch = Append(wk[s].cur_batch, wk'[s].msg)
                        /\ handed' = handed
                   ELSE IF wk[s].cur_batch = <<>>
                   THEN /\ wk'[s].cur_batch = <<wk'[s].msg>>
                        /\ handed' = handed
                   ELSE /\ handed'[s] = Append(handed[s], wk[s].cur_batch)
                        /\ wk'[s].cur_batch = wk[s].cur_batch
                        /\ pc'[s] = "put"
       /\ OnePerBatch'
       /\ TwoBatches']_vars

\* C22: a worker that takes FLUSH hands over the batch it holds and keeps
\* running; one that takes END hands over the batch it holds and then ends;
\* a worker ends for no other reason.
C22_WorkerLifecycle ==
    [][\A s \in Streams :
          /\ (pc[s] \notin {"done", "dead"} /\ pc'[s] \in {"done", "dead"})
                => pc'[s] = "done" /\ wk'[s].msg = Signal(END)
          /\ (DequeueStep(s) /\ qitems[s] # <<>> /\ Head(qitems[s]).sig \in {FLUSH, END})
                => IF wk[s].cur_batch # <<>>
                   THEN /\ handed'[s] = Append(handed[s], wk[s].cur_batch)
                        /\ pc'[s] = "put"
                   ELSE /\ handed' = handed
                        /\ pc'[s] = IF Head(qitems[s]).sig = END THEN "done" ELSE "get"
          /\ (pc[s] \in {"put", "create"} /\ pc'[s] \notin {"put", "create"})
                => pc'[s] = IF wk[s].msg = Signal(END) THEN "done" ELSE "get"]_vars

\* the batch that starts with pulled item m
Seed(m) == IF IsRecord(m) THEN <<m>> ELSE <<>>

\* C23: every turn of a worker either adds the pulled record to the batch
\* under assembly, which it does only before the deadline, or closes that
\* batch: the batch is handed over as it was, without the pulled item, and
\* the batch the worker then starts holds the pulled record and nothing else,
\* or nothing when the item was FLUSH, END or a timeout.
C23_TriggerSeedsNext ==
    [][\A s \in Streams :
          /\ DequeueStep(s)
                => \/ /\ IsRecord(wk'[s].msg)
                      /\ now < wk[s].cur_batch_deadline
                      /\ wk'[s].cur_batch = Append(wk[s].cur_batch, wk'[s].msg)
                      /\ wk'[s].cur_batch_deadline = wk[s].cur_batch_deadline
                      /\ handed' = handed
                      /\ pc'[s] = "get"
                   \/ /\ wk[s].cur_batch # <<>>
                      /\ handed'[s] = Append(handed[s], wk[s].cur_batch)
                      /\ wk'[s].cur_batch = wk[s].cur_batch
                      /\ pc'[s] = "put"
                   \/ /\ wk[s].cur_batch = <<>>
                      /\ handed' = handed
                      /\ \/ pc'[s] = "done" /\ wk'[s].msg = Signal(END)
                         \/ /\ pc'[s] = "get"
                            /\ wk'[s].cur_batch = Seed(wk'[s].msg)
                            /\ wk'[s].cur_batch_deadline = now + cfg.send_interval
          /\ (pc[s] \in {"put", "create"} /\ pc'[s] = "get")
                => /\ wk'[s].cur_batch = Seed(wk[s].msg)
                   /\ wk'[s].cur_batch_deadline = now + cfg.send_interval]_vars

C23_Witness ==
    \E s \in Streams :
        /\ pc[s] = "put"
        /\ ncalls = 0
        /\ cfg.max_batch_size = 100 /\ cfg.max_batch_count = 3
        /\ Len(sub[s].batch) = 1
        /\ sub[s].batch[1].len = 5
        /\ IsRecord(wk[s].msg)
        /\ wk[s].msg.len = 5

\* C24: a flush() call that finds shutting_down set returns at once: it puts
\* nothing on any queue, waits on no queue, and nothing is handed over or sent
\* by it.
C24_FlushAfterCloseNoop ==
    [][\A t \in Threads :
          (FlushCall(t) /\ shutting_down)
              => /\ pc'[t] = "idle"
                 /\ ret'[t] = "flush_noop"
                 /\ qitems' = qitems
                 /\ unfinished_tasks' = unfinished_tasks
                 /\ handed' = handed
                 /\ sent' = sent]_vars

C24_Witness ==
    \E t \in Threads : ret[t] = "flush_noop" /\ queues # <<>>

\* C25: with use_queues false there is never a queue, a worker or a queued
\* item; every admitted record is handed to _submit_batch by its own emit call
\* as a batch of one, and has been in a put_log_events call when emit returns;
\* flush() and close() never signal or wait.
C25_NoQueuesMode ==
    ~cfg.use_queues
        => /\ queues = <<>>
           /\ \A s \in Streams :
                 /\ pc[s] = "none"
                 /\ created[s] = 0
                 /\ qitems[s] = <<>>
                 /\ unfinished_tasks[s] = 0
                 /\ \A i \in 1..Len(handed[s]) : Len(handed[s][i]) = 1
           /\ HandedIds = 1..Len(emitted)
           /\ HandedIds \ InEmit \subseteq sent
           /\ \A t \in Threads : pc[t] \in {"idle", "put", "create", "close_set"}

C25_Witness ==
    /\ ~cfg.use_queues
    /\ Cardinality(sent) >= 2
    /\ \E t \in Threads : ret[t] = "close_returned"

\* the records the worker of stream s has taken from its queue
Pulled(s) ==
    { enq[s][i] : i \in 1..Len(enq[s]) }
        \ { qitems[s][i].id : i \in { j \in 1..Len(qitems[s]) : IsRecord(qitems[s][j]) } }

\* C26: a record taken from a queue has had the truncation warning exactly when
\* its message length plus 26 exceeds max_message_size.
C26_WarnedIffOversized ==
    \A s \in Streams : \A id \in Pulled(s) :
        id \in warned <=> size(emitted[id].message) > cfg.max_message_size

\* the part of C26 this code does keep: an oversized record is warned about
\* and a record of at most max_message_size - 26 characters is not
C26_WarnedOutsideGap ==
    \A s \in Streams : \A id \in Pulled(s) :
        /\ size(emitted[id].message) > cfg.max_message_size => id \in warned
        /\ emitted[id].message.len <= max_message_body_size - EXTRA_MSG_PAYLOAD_SIZE
              => id \notin warned

\* process p's _submit_batch returns in this step with a response of the service
Answered(p) ==
    /\ pc[p] = "put"
    /\ pc'[p] \notin {"put", "create"}
    /\ outcome'[p].resp \in {"ok", "rejected"}

\* C27: when a submission ends with a response of the service, the stream's
\* stored token is the response's next token; when the response has none, it is
\* the token a correction or a stream creation of this submission left, and
\* the token stored before when there was neither.
C27_StoredTokenAfterPut ==
    [][\A p \in Procs :
          Answered(p) => sequence_tokens'[sub[p].stream] = outcome'[p].token]_vars

\* the part of C27 this code does keep: an accepted response without
\* rejection, in a submission without correction or stream creation
C27_StoredTokenPlainPut ==
    [][\A p \in Procs :
          (Answered(p) /\ outcome'[p].resp = "ok" /\ sub[p].expect = "keep")
              => sequence_tokens'[sub[p].stream] = outcome'[p].token]_vars

\* C28: no emit call of an application thread ends in the silent return of
\* the creating_log_stream guard: a record logged by the application while a
\* worker is inside create_log_stream is not discarded.
C28_GuardSparesApplication ==
    \A t \in Threads : ret[t] # "emit_guarded"

\* how many places hold record id of stream s: positions in the batches handed
\* to _submit_batch, positions in the worker's open batch, and the record that
\* closed a batch and waits for _submit_batch to return to start the next one
InHanded(s, id) ==
    Cardinality({ x \in UNION { { <<i, j>> : j \in 1..Len(handed[s][i]) } :
                                  i \in 1..Len(handed[s]) } :
                    handed[s][x[1]][x[2]].id = id })

InOpenBatch(s, id) ==
    IF pc[s] = "get"
    THEN Cardinality({ j \in 1..Len(wk[s].cur_batch) : wk[s].cur_batch[j].id = id })
    ELSE 0

HeldAsSeed(s, id) ==
    IF pc[s] \in {"put", "create"} /\ IsRecord(wk[s].msg) /\ wk[s].msg.id = id
    THEN 1 ELSE 0

\* C29: every record taken from a queue is in exactly one batch, handed over
\* or open, or is the trigger that seeds the next batch once the submission
\* under way returns; no batch holds FLUSH or END.
C29_ExactlyOneBatch ==
    \A s \in Streams :
        /\ \A id \in Pulled(s) :
              InHanded(s, id) + InOpenBatch(s, id) + HeldAsSeed(s, id) = 1
        /\ \A i \in 1..Len(handed[s]) : \A j \in 1..Len(handed[s][i]) :
              IsRecord(handed[s][i][j])
        /\ \A j \in 1..Len(wk[s].cur_batch) : IsRecord(wk[s].cur_batch[j])

\* C30: on no queue is anything behind an END signal, and the queue of a
\* worker that has ended is empty.
C30_NothingAfterEnd ==
    \A s \in Streams :
        /\ \A i \in 1..Len(qitems[s]) : qitems[s][i] = Signal(END) => i = Len(qitems[s])
        /\ pc[s] = "done" => qitems[s] = <<>>

\* the END signals put on the queue of stream s so far: those still on the
\* queue and the one its worker took (a worker takes nothing after an END)
EndsPut(s) ==
    Cardinality({ i \in 1..Len(qitems[s]) : qitems[s][i] = Signal(END) })
        + (IF wk[s].msg = Signal(END) THEN 1 ELSE 0)

\* C31: no queue gets a second END signal, and at most one caller of close()
\* finds shutting_down false and goes on to set it.
C31_OneEndPerQueue ==
    /\ \A s \in Streams : EndsPut(s) <= 1
    /\ Cardinality({ t \in Threads :
                       ret[t] \in {"close_running", "close_returned", "close_raised"} }) <= 1

\* C32: no process is ever in a put_log_events call with an empty event list,
\* and a worker turn that gets a timeout, FLUSH or END with an empty batch
\* hands over nothing, makes no remote call and leaves the stored tokens alone.
C32_NoEmptyPut ==
    [][/\ \A p \in Procs : pc'[p] \in {"put", "create"} => sub'[p].events # <<>>
       /\ \A s \in Streams :
             (DequeueStep(s) /\ wk[s].cur_batch = <<>> /\ ~IsRecord(wk'[s].msg))
                 => /\ pc'[s] \in {"get", "done"}
                    /\ handed' = handed
                    /\ sent' = sent
                    /\ sub' = sub
                    /\ sequence_tokens' = sequence_tokens]_vars

C32_Witness ==
    \E s \in Streams :
        /\ pc[s] \in {"get", "done"}
        /\ wk[s].msg \in {Signal(FLUSH), Signal(END)}
        /\ wk[s].cur_batch = <<>>
        /\ handed[s] = <<>>

====
